---- MODULE Spec2Model ----
(***************************************************************************)
(* RoboClone (roboclone_gui.py): a Tkinter front end that runs Robocopy in *)
(* a worker thread, estimates progress from the Robocopy log, and then     *)
(* performs a post-action (close / reboot / shutdown with a countdown).    *)
(*                                                                         *)
(* Strings are sequences of one-character strings.  A log line is the set  *)
(* of progress keywords it contains.                                       *)
(***************************************************************************)
EXTENDS Integers, Sequences, FiniteSets, TLC

VARIABLES
    post_action_var,   \* tk.StringVar: none | close | reboot | shutdown
    tray_notify_var,   \* tk.BooleanVar
    progress_var,      \* tk.IntVar bound to the progress bar
    progress_label,    \* text of the label next to the progress bar
    now,               \* wall clock (datetime.datetime.now()) at the latest run_backup
    logs,              \* the files of LOG_DIR, by the timestamp in their name
    jobs,              \* one record per worker thread started by run_backup
    wins,              \* one countdown window (and its _tick thread) per job
    power,             \* the commands handed to os.system, in order
    app,               \* "running" | "closing" (root.destroy queued) | "closed"
    last               \* the latest call of run_backup: its inputs and outcome

vars == << post_action_var, tray_notify_var, progress_var, progress_label, now,
           logs, jobs, wins, power, app, last >>

----------------------------------------------------------------------------
(* Bounds of the model.                                                    *)

MaxSubmits == 2        \* calls of run_backup
MaxClock == 1          \* seconds the wall clock advances over a run
MaxLogLines == 1       \* lines Robocopy writes to one log
MaxProbeLines == 50    \* lines of a log handed to _update_progress alone
MaxExclLen == 3        \* characters of the exclusions entry
MaxGrowLines == 4      \* lines of a log that Robocopy appends to

----------------------------------------------------------------------------
(* Strings.                                                                *)

LowerChar(c) == IF c = "A" THEN "a" ELSE IF c = "B" THEN "b" ELSE c

\* str.lower()
Lower(s) == [i \in 1..Len(s) |-> LowerChar(s[i])]

\* Python's `sub in s`: the empty string is in every string.
Contains(sub, s) ==
    \E i \in 0..(Len(s) - Len(sub)) : SubSeq(s, i + 1, i + Len(sub)) = sub

RECURSIVE LStrip(_)
LStrip(s) == IF s # << >> /\ Head(s) = " " THEN LStrip(Tail(s)) ELSE s

RECURSIVE RStrip(_)
RStrip(s) ==
    IF s # << >> /\ s[Len(s)] = " " THEN RStrip(SubSeq(s, 1, Len(s) - 1)) ELSE s

\* str.strip()
Strip(s) == RStrip(LStrip(s))

\* str.split(";"): the pieces between separators; "" splits into [""].
RECURSIVE SplitFrom(_, _)
SplitFrom(s, cur) ==
    IF s = << >> THEN << cur >>
    ELSE IF Head(s) = ";" THEN << cur >> \o SplitFrom(Tail(s), << >>)
    ELSE SplitFrom(Tail(s), Append(cur, Head(s)))

Split(s) == SplitFrom(s, << >>)

Range(f) == { f[i] : i \in DOMAIN f }

\* excl_set = {e.strip().lower() for e in exclusions.split(";") if e.strip()}
ExclSetKeepEmpty(exclusions) ==
    { Lower(Strip(e)) : e \in Range(Split(exclusions)) }

ExclSet(exclusions) ==
    { Lower(Strip(e)) : e \in { p \in Range(Split(exclusions)) : Strip(p) # << >> } }

----------------------------------------------------------------------------
(* The preflight scan of run_backup.                                       *)

Sep == "/"

\* os.walk(source): one (root_dir, files) per directory under the source;
\* a directory of the tree is given by its path relative to the source.
RootDir(source, rel) == IF rel = << >> THEN source ELSE source \o << Sep >> \o rel

\* any(excl in root_dir.lower() for excl in excl_set)
DirExcluded(root_dir, excl_set) == \E excl \in excl_set : Contains(excl, Lower(root_dir))

\* any(excl in fname.lower() for excl in excl_set)
FileExcluded(fname, excl_set) == \E excl \in excl_set : Contains(excl, Lower(fname))

\* The inner loop: sizes of the files that are not excluded; os.path.getsize
\* raising OSError (readable = FALSE) adds nothing.
RECURSIVE SumFiles(_, _)
SumFiles(files, excl_set) ==
    IF files = << >> THEN 0
    ELSE (IF FileExcluded(Head(files).fname, excl_set) \/ ~Head(files).readable
             THEN 0 ELSE Head(files).size)
         + SumFiles(Tail(files), excl_set)

\* The outer loop over os.walk(source).
RECURSIVE SumTree(_, _, _)
SumTree(source, tree, excl_set) ==
    IF tree = << >> THEN 0
    ELSE (IF DirExcluded(RootDir(source, Head(tree).rel), excl_set)
             THEN 0 ELSE SumFiles(Head(tree).files, excl_set))
         + SumTree(source, Tail(tree), excl_set)

TotalBytes(source, tree, exclusions) == SumTree(source, tree, ExclSet(exclusions))

----------------------------------------------------------------------------
(* Floating point, as `int(done / total * 100)` computes it.  A binary64   *)
(* value m * 2^(-52 - e) with 2^52 <= m < 2^53 is kept as three limbs      *)
(* m = a * 2^36 + b * 2^18 + c and the exponent e.                         *)

Limb == 262144       \* 2^18, the base of the two low limbs
TopLimb == 131072    \* 2^17, the bound of the high limb: 53 = 17 + 18 + 18 bits

\* m + 1 on a 53-bit significand; a carry out of the top renormalises.
FloatInc(f) ==
    IF f.c + 1 < Limb THEN [f EXCEPT !.c = f.c + 1]
    ELSE IF f.b + 1 < Limb THEN [f EXCEPT !.c = 0, !.b = f.b + 1]
    ELSE IF f.a + 1 < TopLimb THEN [f EXCEPT !.c = 0, !.b = 0, !.a = f.a + 1]
    ELSE [a |-> TopLimb \div 2, b |-> 0, c |-> 0, e |-> f.e - 1]

\* Round to nearest, ties to even: guard is the first dropped bit, sticky
\* tells whether any later dropped bit is set.
RoundEven(f, guard, sticky) ==
    IF guard /\ (sticky \/ f.c % 2 = 1) THEN FloatInc(f) ELSE f

RECURSIVE NormExp(_, _, _)
NormExp(m, k, e) == IF m * 2^e >= k THEN e ELSE NormExp(m, k, e + 1)

\* done / total for 0 < done <= total: the correctly rounded quotient.
FloatDiv(m, k) ==
    LET e  == NormExp(m, k, 0)
        r0 == m * 2^e - k
        a  == 65536 + (r0 * 65536) \div k
        r1 == (r0 * 65536) % k
        b  == (r1 * Limb) \div k
        r2 == (r1 * Limb) % k
        c  == (r2 * Limb) \div k
        r3 == (r2 * Limb) % k
    IN  RoundEven([a |-> a, b |-> b, c |-> c, e |-> e],
                  (2 * r3) \div k = 1, (2 * r3) % k # 0)

\* x * 100: the exact 60-bit product, rounded back to 53 bits.
FloatMul100(f) ==
    LET pc == f.c * 100
        pb == f.b * 100 + pc \div Limb
        pa == f.a * 100 + pb \div Limb
        lc == pc % Limb
        lb == pb % Limb
        s  == IF pa >= 64 * TopLimb THEN 7 ELSE 6
        lo == lc % 2^s
    IN  RoundEven([a |-> pa \div 2^s,
                   b |-> lb \div 2^s + (pa % 2^s) * 2^(18 - s),
                   c |-> lc \div 2^s + (lb % 2^s) * 2^(18 - s),
                   e |-> f.e - s],
                  lo >= 2^(s - 1), lo % 2^(s - 1) # 0)

\* int(x) for 1 <= x < 2^17: the bits of the significand above the point.
FloatTrunc(f) == f.a \div 2^(16 + f.e)

\* pct = int(done / total * 100), for 0 <= done <= total, total >= 1
Pct(done, total) ==
    IF done = 0 THEN 0 ELSE FloatTrunc(FloatMul100(FloatDiv(done, total)))

----------------------------------------------------------------------------
(* The deficit shown by the "Insufficient space" dialog.                   *)

GiB == 1073741824    \* 1024**3

\* f"{(total_bytes - free_bytes) / (1024**3):.1f}": the number of tenths of
\* a GB shown, the exact quotient rounded half to even.  Computed on
\* 10 * d / 2^30 = 5 * d / 2^29 in pieces that stay below 2^31.
DeficitTenths(d) ==
    LET q    == d \div GiB
        r    == d % GiB
        n    == 5 * (r \div 1024)
        rem  == (n % 2^19) * 1024 + 5 * (r % 1024)
        fl   == n \div 2^19 + rem \div 2^29
        frac == rem % 2^29
        up   == frac > 2^28 \/ (frac = 2^28 /\ fl % 2 = 1)
    IN  10 * q + fl + (IF up THEN 1 ELSE 0)

----------------------------------------------------------------------------
(* The log parser _update_progress.                                        *)

Keywords == { "New File", "Newer", "100%" }

\* A file of LOG_DIR: absent, or its lines.
NoFile == [exists |-> FALSE, lines |-> << >>]

LogOf(lines) == [exists |-> TRUE, lines |-> lines]

\* relevant = [l for l in lines if any(k in l for k in (...))]
Relevant(lines) == SelectSeq(lines, LAMBDA l : \E k \in Keywords : k \in l)

\* done = sum("100%" in l for l in relevant)
Done(relevant) == Len(SelectSeq(relevant, LAMBDA l : "100%" \in l))

\* total = max(len(relevant), 1)
TotalNoFloor(relevant) == Len(relevant)

Total(relevant) == IF Len(relevant) > 1 THEN Len(relevant) ELSE 1

PctLabel(pct) == << pct, "% done" >>

\* The state of the progress bar after _update_progress(log_path, force=...)
\* on the file `file`; `readable` = FALSE is open() or readlines() raising.
\* Both except clauses leave the progress bar as it is.
ProgressAfter(cur, file, force, readable) ==
    IF ~file.exists \/ ~readable THEN cur
    ELSE LET relevant == Relevant(file.lines)
             pct == IF force THEN 100
                    ELSE Pct(Done(relevant), Total(relevant))
         IN  [var |-> pct, label |-> PctLabel(pct)]

----------------------------------------------------------------------------
(* What run_backup is called with: the Tk variables it reads and the file  *)
(* system it looks at.                                                     *)

PostActions == { "none", "close", "reboot", "shutdown" }

SrcPath == << "d" >>
TgtPath == << "t" >>

\* What the try block of the preflight meets: nothing, disk_usage(target)
\* raising, or the walk raising.
ScanOk == "ok"
DiskError == "disk_usage raises"
WalkError == "walk raises"

File(fname, size, readable) == [fname |-> fname, size |-> size, readable |-> readable]

\* d/a (0.75 GB), d/B (0.5 GB)
TreeFlat ==
    << [rel |-> << >>,
        files |-> << File(<< "a" >>, 3 * 2^28, TRUE), File(<< "B" >>, 2^29, TRUE) >>] >>

\* d/b, d/A, d/a/b, d/a/a, d/a/b/A, d/B/a (unreadable), d/B/b, d/B/A
TreeDeep ==
    << [rel |-> << >>,
        files |-> << File(<< "b" >>, 1, TRUE), File(<< "A" >>, 2, TRUE) >>],
       [rel |-> << "a" >>,
        files |-> << File(<< "b" >>, 4, TRUE), File(<< "a" >>, 8, TRUE) >>],
       [rel |-> << "a", Sep, "b" >>,
        files |-> << File(<< "A" >>, 16, TRUE) >>],
       [rel |-> << "B" >>,
        files |-> << File(<< "a" >>, 32, FALSE), File(<< "b" >>, 64, TRUE),
                     File(<< "A" >>, 128, TRUE) >>] >>

FreeChoices == { 0, 2^29, 5 * 2^28 }

Submission(source, target, dry_run, exclusions, tree, free, scan) ==
    [source |-> source, target |-> target, dry_run |-> dry_run,
     exclusions |-> exclusions, tree |-> tree, free |-> free, scan |-> scan]

\* The plain submission: d to t, all of it, with room to spare.
Submissions1 == Submission(SrcPath, TgtPath, FALSE, << >>, TreeFlat, 5 * 2^28, ScanOk)

NoSubmission == Submission(<< >>, << >>, FALSE, << >>, << >>, 0, ScanOk)

\* The submissions of the full specification: no source, a deficit, a
\* launch (total = free once d/a is excluded).
Submissions ==
    { Submission(<< >>, TgtPath, FALSE, << >>, TreeFlat, 2^29, ScanOk),
      Submission(SrcPath, TgtPath, FALSE, << >>, TreeFlat, 2^29, ScanOk),
      Submission(SrcPath, TgtPath, TRUE, << "A", ";" >>, TreeFlat, 2^29, ScanOk) }

\* The submissions of the specification of run_backup alone.
WideExclusions == { << >>, << "A", ";" >>, << " ", ";" >> }

WideSubmissions ==
    { Submission(s, t, FALSE, << >>, TreeFlat, 0, ScanOk) :
          s \in { << >>, SrcPath }, t \in { << >>, TgtPath } }
    \cup { Submission(SrcPath, TgtPath, d, e, tr, f, ScanOk) :
          d \in BOOLEAN, e \in WideExclusions, tr \in { TreeFlat, TreeDeep },
          f \in FreeChoices }
    \cup { Submission(SrcPath, TgtPath, d, e, TreeFlat, 0, x) :
          d \in BOOLEAN, e \in WideExclusions, x \in { DiskError, WalkError } }

\* The exclusions entry: every text of at most MaxExclLen characters.
ExclAlphabet == { "a", "A", "b", ";", " " }

ExclStrings == UNION { [1..n -> ExclAlphabet] : n \in 0..MaxExclLen }

\* The submissions of the specification of the preflight scan.
ScanSubmissions ==
    { Submission(s, TgtPath, d, e, tr, 100, ScanOk) :
          s \in { SrcPath, << "A" >> }, d \in BOOLEAN, e \in ExclStrings,
          tr \in { TreeFlat, TreeDeep } }

----------------------------------------------------------------------------
(* run_backup.                                                             *)

\* for excl in (e.strip() for e in exclusions.split(";") if e.strip()):
\*     cmd.extend(["/XD", excl, "/XF", excl])
RECURSIVE ExclArgsKeepBlank(_)
ExclArgsKeepBlank(pieces) ==
    IF pieces = << >> THEN << >>
    ELSE << << "/XD" >>, Strip(Head(pieces)), << "/XF" >>, Strip(Head(pieces)) >>
         \o ExclArgsKeepBlank(Tail(pieces))

RECURSIVE ExclArgs(_)
ExclArgs(pieces) ==
    IF pieces = << >> THEN << >>
    ELSE (IF Strip(Head(pieces)) # << >>
             THEN << << "/XD" >>, Strip(Head(pieces)), << "/XF" >>, Strip(Head(pieces)) >>
             ELSE << >>)
         \o ExclArgs(Tail(pieces))

\* log_path = os.path.join(LOG_DIR, f"robocopy_log_{timestamp}.txt")
LogPath(timestamp) == << "logs", "robocopy_log_", timestamp, ".txt" >>

Timestamp(log_path) == log_path[3]

Cmd(in, log_path) ==
    << << "robocopy" >>, in.source, in.target, << "/MIR" >>, << "/R:0" >>, << "/W:0" >> >>
    \o ExclArgs(Split(in.exclusions))
    \o (IF in.dry_run THEN << << "/L" >> >> ELSE << >>)
    \o << << "/LOG:" >> \o log_path >>

NoWin == [exists |-> FALSE, tpc |-> "none", i |-> 0, secs |-> 0,
          os_cmd |-> "", cancelled |-> FALSE]

NewJob(n, cmd, log_path) ==
    [sub |-> n, cmd |-> cmd, log_path |-> log_path, pc |-> "popen",
     proc |-> "none", last_update |-> "none", done_shown |-> 0,
     dismissed |-> FALSE, notified |-> 0, notify_failed |-> FALSE,
     post |-> << >>, errors |-> 0]

\* A countdown window holds the grab (win.grab_set()): the main window gets
\* no pointer or keyboard event while one exists.
Grabbed == \E j \in DOMAIN wins : wins[j].exists

\* total_bytes > free_bytes
DeficitAtEqual(total_bytes, free_bytes) == total_bytes >= free_bytes

Deficit(total_bytes, free_bytes) == total_bytes > free_bytes

Outcome(n, in, outcome, warnings, errors, total, tenths, prepared) ==
    [n |-> n, in |-> in, outcome |-> outcome, warnings |-> warnings,
     errors |-> errors, total |-> total, tenths |-> tenths, prepared |-> prepared]

\* The branch of run_backup that rejects: a warning, nothing else.
Reject(in) ==
    /\ last' = Outcome(last.n + 1, in, "rejected", 1, 0, -1, -1, FALSE)
    /\ UNCHANGED << progress_var, progress_label, logs, jobs, wins >>

\* The branch that stops on a deficit: an error dialog, nothing else.
Block(in, total_bytes) ==
    /\ last' = Outcome(last.n + 1, in, "deficit", 0, 1, total_bytes,
                       DeficitTenths(total_bytes - in.free), FALSE)
    /\ UNCHANGED << progress_var, progress_label, logs, jobs, wins >>

\* Lines 99-119: command, log path, reset of the progress bar, worker thread.
Launch(in, warnings, total_bytes) ==
    LET log_path == LogPath(now')
    IN  /\ last' = Outcome(last.n + 1, in, "launched", warnings, 0, total_bytes, -1, TRUE)
        /\ progress_var' = 0
        /\ progress_label' = << "Running" >>
        /\ jobs' = Append(jobs, NewJob(last.n + 1, Cmd(in, log_path), log_path))
        /\ wins' = Append(wins, NoWin)
        /\ UNCHANGED logs

\* if not source or not target
MissingBoth(in) == in.source = << >> /\ in.target = << >>

MissingPath(in) == in.source = << >> \/ in.target = << >>

\* except Exception as err: showwarning(...), and on to the launch
WarnAndStop(in) == Reject(in)

WarnAndProceed(in) == Launch(in, 1, -1)

\* The Start Copy button, dt seconds after the previous call.
run_backup(in, dt) ==
    /\ app = "running"
    /\ ~Grabbed
    /\ last.n < MaxSubmits
    /\ now + dt <= MaxClock
    /\ now' = now + dt
    /\ IF MissingPath(in)
          THEN Reject(in)
          ELSE IF in.scan # ScanOk
          THEN WarnAndProceed(in)
          ELSE LET total_bytes == TotalBytes(in.source, in.tree, in.exclusions)
               IN  IF Deficit(total_bytes, in.free)
                      THEN Block(in, total_bytes)
                      ELSE Launch(in, 0, total_bytes)
    /\ UNCHANGED << post_action_var, tray_notify_var, power, app >>

----------------------------------------------------------------------------
(* _worker: one thread per job.                                            *)

Job(j) == jobs[j]

LogFile(j) == logs[Timestamp(jobs[j].log_path)]

Alive == app # "closed"

\* _update_progress(log_path, force=...) called by worker j.
update_progress(j, force, readable) ==
    LET after == ProgressAfter([var |-> progress_var, label |-> progress_label],
                               LogFile(j), force, readable)
    IN  /\ progress_var' = after.var
        /\ progress_label' = after.label

\* proc = subprocess.Popen(cmd, ...): started, or raising (ok = FALSE),
\* which the except clause turns into the "Execution failed" dialog.
PopenCarriesOn(j, ok) ==
    /\ Alive
    /\ Job(j).pc = "popen"
    /\ jobs' = [jobs EXCEPT ![j] =
                 IF ok THEN [@ EXCEPT !.pc = "poll", !.proc = "running"]
                       ELSE [@ EXCEPT !.pc = "poll", !.errors = @ + 1]]
    /\ UNCHANGED << post_action_var, tray_notify_var, progress_var, progress_label,
                    now, logs, wins, power, app, last >>

Popen(j, ok) ==
    /\ Alive
    /\ Job(j).pc = "popen"
    /\ jobs' = [jobs EXCEPT ![j] =
                 IF ok THEN [@ EXCEPT !.pc = "poll", !.proc = "running"]
                       ELSE [@ EXCEPT !.pc = "end", !.errors = @ + 1]]
    /\ UNCHANGED << post_action_var, tray_notify_var, progress_var, progress_label,
                    now, logs, wins, power, app, last >>

\* while proc.poll() is None: _update_progress(log_path); time.sleep(1)
Poll(j, readable) ==
    /\ Alive
    /\ Job(j).pc = "poll"
    /\ Job(j).proc # "exited"
    /\ update_progress(j, FALSE, readable)
    /\ jobs' = [jobs EXCEPT ![j].last_update = "periodic"]
    /\ UNCHANGED << post_action_var, tray_notify_var, now, logs, wins, power, app, last >>

\* proc.poll() is not None: the loop ends, and
\* _update_progress(log_path, force=True) follows.
FinalUpdate(j, readable) ==
    /\ Alive
    /\ Job(j).pc = "poll"
    /\ Job(j).proc = "exited"
    /\ update_progress(j, TRUE, readable)
    /\ jobs' = [jobs EXCEPT ![j].pc = "showinfo", ![j].last_update = "forced"]
    /\ UNCHANGED << post_action_var, tray_notify_var, now, logs, wins, power, app, last >>

\* messagebox.showinfo("Done", ...): the dialog opens and the worker waits.
ShowDoneInLoop(j) ==
    /\ Alive
    /\ Job(j).pc = "showinfo"
    /\ jobs' = [jobs EXCEPT ![j].pc = "poll", ![j].done_shown = @ + 1]
    /\ UNCHANGED << post_action_var, tray_notify_var, progress_var, progress_label,
                    now, logs, wins, power, app, last >>

ShowDoneNoWait(j) ==
    /\ Alive
    /\ Job(j).pc = "showinfo"
    /\ jobs' = [jobs EXCEPT ![j].pc = "notify", ![j].done_shown = @ + 1]
    /\ UNCHANGED << post_action_var, tray_notify_var, progress_var, progress_label,
                    now, logs, wins, power, app, last >>

ShowDone(j) ==
    /\ Alive
    /\ Job(j).pc = "showinfo"
    /\ jobs' = [jobs EXCEPT ![j].pc = "dialog", ![j].done_shown = @ + 1]
    /\ UNCHANGED << post_action_var, tray_notify_var, progress_var, progress_label,
                    now, logs, wins, power, app, last >>

\* The user presses OK: showinfo returns.
DismissDone(j) ==
    /\ Alive
    /\ Job(j).pc = "dialog"
    /\ jobs' = [jobs EXCEPT ![j].pc = "notify", ![j].dismissed = TRUE]
    /\ UNCHANGED << post_action_var, tray_notify_var, progress_var, progress_label,
                    now, logs, wins, power, app, last >>

\* if tray_notify_var.get(): notification.notify(...).  notify raising
\* (ok = FALSE) leaves the try block for the "Execution failed" dialog.
Notify(j, ok) ==
    /\ Alive
    /\ Job(j).pc = "notify"
    /\ jobs' = [jobs EXCEPT ![j] =
                 IF ~tray_notify_var THEN [@ EXCEPT !.pc = "post"]
                 ELSE IF ok THEN [@ EXCEPT !.pc = "post", !.notified = @ + 1]
                 ELSE [@ EXCEPT !.pc = "end", !.notify_failed = TRUE,
                                !.errors = @ + 1]]
    /\ UNCHANGED << post_action_var, tray_notify_var, progress_var, progress_label,
                    now, logs, wins, power, app, last >>

\* _countdown(action, os_cmd): the window with secs = 5, the grab, and the
\* _tick thread, which enters its loop: secs.set(5), time.sleep(1).
countdown(j, os_cmd) ==
    wins' = [wins EXCEPT ![j] = [exists |-> TRUE, tpc |-> "sleep", i |-> 5, secs |-> 5,
                                 os_cmd |-> os_cmd, cancelled |-> FALSE]]

\* match post_action_var.get(): ...
PostAction(j) ==
    /\ Alive
    /\ Job(j).pc = "post"
    /\ jobs' = [jobs EXCEPT ![j].pc = "end", ![j].post = Append(@, post_action_var)]
    /\ CASE post_action_var = "reboot" ->
                countdown(j, "shutdown /r /t 0") /\ UNCHANGED app
         [] post_action_var = "shutdown" ->
                countdown(j, "shutdown /s /t 0") /\ UNCHANGED app
         [] post_action_var = "close" ->
                /\ app' = "closing"       \* root.after(0, root.destroy)
                /\ UNCHANGED wins
         [] OTHER -> UNCHANGED << wins, app >>
    /\ UNCHANGED << post_action_var, tray_notify_var, progress_var, progress_label,
                    now, logs, power, last >>

----------------------------------------------------------------------------
(* _tick: the thread of one countdown window.                              *)

\* time.sleep(1) is over: if not win.winfo_exists(): return -- then the
\* next round of the loop with its secs.set(i), or the end of the loop.
TickCheck(j) ==
    /\ Alive
    /\ wins[j].tpc = "sleep"
    /\ wins' = [wins EXCEPT ![j] =
                 IF ~@.exists THEN [@ EXCEPT !.tpc = "end"]
                 ELSE IF @.i > 1 THEN [@ EXCEPT !.i = @ - 1, !.secs = wins[j].i - 1]
                 ELSE [@ EXCEPT !.tpc = "fire"]]
    /\ UNCHANGED << post_action_var, tray_notify_var, progress_var, progress_label,
                    now, logs, jobs, power, app, last >>

\* win.destroy() (on a window already destroyed it does nothing), then
\* os.system(os_cmd)
TickFire(j) ==
    /\ Alive
    /\ wins[j].tpc = "fire"
    /\ power' = Append(power, [job |-> j, os_cmd |-> wins[j].os_cmd])
    /\ wins' = [wins EXCEPT ![j].exists = FALSE, ![j].tpc = "end"]
    /\ UNCHANGED << post_action_var, tray_notify_var, progress_var, progress_label,
                    now, logs, jobs, app, last >>

\* The Cancel button of the countdown window: command=win.destroy
Cancel(j) ==
    /\ Alive
    /\ wins[j].exists
    /\ wins' = [wins EXCEPT ![j].exists = FALSE, ![j].cancelled = TRUE]
    /\ UNCHANGED << post_action_var, tray_notify_var, progress_var, progress_label,
                    now, logs, jobs, power, app, last >>

----------------------------------------------------------------------------
(* The environment: Robocopy, the clock, the user.                         *)

\* Robocopy opens /LOG:file, creating or overwriting it.
RobocopyOpenLog(j) ==
    /\ Alive
    /\ Job(j).proc = "running"
    /\ jobs' = [jobs EXCEPT ![j].proc = "logging"]
    /\ logs' = [logs EXCEPT ![Timestamp(Job(j).log_path)] = LogOf(<< >>)]
    /\ UNCHANGED << post_action_var, tray_notify_var, progress_var, progress_label,
                    now, wins, power, app, last >>

\* Robocopy writes the line of a file it starts to copy.
RobocopyNewFile(j) ==
    /\ Alive
    /\ Job(j).proc = "logging"
    /\ LogFile(j).exists
    /\ Len(LogFile(j).lines) < MaxLogLines
    /\ logs' = [logs EXCEPT ![Timestamp(Job(j).log_path)].lines = Append(@, { "New File" })]
    /\ UNCHANGED << post_action_var, tray_notify_var, progress_var, progress_label,
                    now, jobs, wins, power, app, last >>

\* Robocopy completes the line of a copied file with "100%".
RobocopyCopied(j, n) ==
    /\ Alive
    /\ Job(j).proc = "logging"
    /\ LogFile(j).exists
    /\ n \in 1..Len(LogFile(j).lines)
    /\ "100%" \notin LogFile(j).lines[n]
    /\ logs' = [logs EXCEPT ![Timestamp(Job(j).log_path)].lines[n] = @ \cup { "100%" }]
    /\ UNCHANGED << post_action_var, tray_notify_var, progress_var, progress_label,
                    now, jobs, wins, power, app, last >>

\* Robocopy writes one more line at the end of its log, the lines written
\* before left as they are.
RobocopyAppend(j, line) ==
    /\ Alive
    /\ Job(j).proc = "logging"
    /\ LogFile(j).exists
    /\ Len(LogFile(j).lines) < MaxGrowLines
    /\ logs' = [logs EXCEPT ![Timestamp(Job(j).log_path)].lines = Append(@, line)]
    /\ UNCHANGED << post_action_var, tray_notify_var, progress_var, progress_label,
                    now, jobs, wins, power, app, last >>

\* The Robocopy process ends (with or without having opened its log).
RobocopyExit(j) ==
    /\ Alive
    /\ Job(j).proc \in { "running", "logging" }
    /\ jobs' = [jobs EXCEPT ![j].proc = "exited"]
    /\ UNCHANGED << post_action_var, tray_notify_var, progress_var, progress_label,
                    now, logs, wins, power, app, last >>

\* The user picks a post-action in the combobox.  Only the match statement
\* of a worker reads it, so a pick made earlier and one made right before
\* that read lead to the same runs: the user picks when a worker stands
\* before the read.
SetPostAction(v) ==
    /\ app = "running"
    /\ ~Grabbed
    /\ v # post_action_var
    /\ \E j \in DOMAIN jobs : jobs[j].pc = "post"
    /\ post_action_var' = v
    /\ UNCHANGED << tray_notify_var, progress_var, progress_label, now, logs, jobs,
                    wins, power, app, last >>

\* The user toggles "Enable notification when done"; as for the combobox,
\* when a worker stands before its read of the checkbox.
ToggleNotify ==
    /\ app = "running"
    /\ ~Grabbed
    /\ \E j \in DOMAIN jobs : jobs[j].pc = "notify"
    /\ tray_notify_var' = ~tray_notify_var
    /\ UNCHANGED << post_action_var, progress_var, progress_label, now, logs, jobs,
                    wins, power, app, last >>

\* root.destroy: the Exit button, or the call queued by the "close"
\* post-action.  The main loop returns and the interpreter exits: the Tk
\* variables, the windows and the daemon threads are gone; the log files
\* and what os.system did remain.
RootDestroy ==
    /\ app = "closing" \/ (app = "running" /\ ~Grabbed)
    /\ app' = "closed"
    /\ jobs' = << >>
    /\ wins' = << >>
    /\ post_action_var' = "none"
    /\ tray_notify_var' = TRUE
    /\ progress_var' = 0
    /\ progress_label' = << "Waiting" >>
    /\ now' = 0
    /\ last' = Outcome(0, NoSubmission, "none", 0, 0, -1, -1, FALSE)
    /\ UNCHANGED << logs, power >>

----------------------------------------------------------------------------
(* The program.                                                            *)

Init ==
    /\ post_action_var = "none"
    /\ tray_notify_var = TRUE
    /\ progress_var = 0
    /\ progress_label = << "Waiting" >>
    /\ now = 0
    /\ logs = [t \in 0..MaxClock |-> NoFile]
    /\ jobs = << >>
    /\ wins = << >>
    /\ power = << >>
    /\ app = "running"
    /\ last = Outcome(0, NoSubmission, "none", 0, 0, -1, -1, FALSE)

Next ==
    \/ \E in \in Submissions, dt \in 0..MaxClock : run_backup(in, dt)
    \/ \E j \in DOMAIN jobs :
          \/ \E ok \in BOOLEAN : Popen(j, ok)
          \/ \E readable \in BOOLEAN : Poll(j, readable)
          \/ \E readable \in BOOLEAN : FinalUpdate(j, readable)
          \/ ShowDone(j)
          \/ DismissDone(j)
          \/ \E ok \in BOOLEAN : Notify(j, ok)
          \/ PostAction(j)
          \/ TickCheck(j)
          \/ TickFire(j)
          \/ Cancel(j)
          \/ RobocopyOpenLog(j)
          \/ RobocopyNewFile(j)
          \/ \E n \in 1..MaxLogLines : RobocopyCopied(j, n)
          \/ RobocopyExit(j)
    \/ \E v \in PostActions : SetPostAction(v)
    \/ ToggleNotify
    \/ RootDestroy

Spec == Init /\ [][Next]_vars

----------------------------------------------------------------------------
(* run_backup alone, over a wider set of submissions.                      *)

NextSubmit == \E in \in WideSubmissions, dt \in 0..MaxClock : run_backup(in, dt)

SpecSubmit == Init /\ [][NextSubmit]_vars

----------------------------------------------------------------------------
(* The preflight scan: the user has filled the form (last.in) and presses  *)
(* Start Copy.                                                             *)

InitScan ==
    /\ post_action_var = "none"
    /\ tray_notify_var = TRUE
    /\ progress_var = 0
    /\ progress_label = << "Waiting" >>
    /\ now = 0
    /\ logs = [t \in 0..MaxClock |-> NoFile]
    /\ jobs = << >>
    /\ wins = << >>
    /\ power = << >>
    /\ app = "running"
    /\ \E in \in ScanSubmissions : last = Outcome(0, in, "none", 0, 0, -1, -1, FALSE)

NextScan == run_backup(last.in, 0)

SpecScan == InitScan /\ [][NextScan]_vars

----------------------------------------------------------------------------
(* The log parser: a job whose Robocopy has written k progress lines, m of *)
(* them complete, after `other` lines without a keyword.                   *)

ProbeLine(n, m) ==
    IF n <= m THEN (IF n % 2 = 1 THEN { "New File", "100%" } ELSE { "100%" })
              ELSE (IF n % 2 = 1 THEN { "New File" } ELSE { "Newer" })

ProbeLog(k, m, other) ==
    LogOf([n \in 1..other |-> { }] \o [n \in 1..k |-> ProbeLine(n, m)])

ProbeLogs ==
    { ProbeLog(k, m, other) :
          k \in 0..MaxProbeLines, m \in 0..MaxProbeLines, other \in 0..1 }

InitProgress ==
    /\ post_action_var = "none"
    /\ tray_notify_var = TRUE
    /\ progress_var = 0
    /\ progress_label = << "Running" >>
    /\ now = 0
    /\ \E file \in ProbeLogs \cup { NoFile } :
          /\ logs = [t \in 0..MaxClock |-> IF t = 0 THEN file ELSE NoFile]
          /\ jobs = << [NewJob(1, Cmd(Submissions1, LogPath(0)), LogPath(0))
                          EXCEPT !.pc = "poll",
                                 !.proc = IF file.exists THEN "logging" ELSE "running"] >>
    /\ wins = << NoWin >>
    /\ power = << >>
    /\ app = "running"
    /\ last = Outcome(1, Submissions1, "launched", 0, 0, 5 * 2^28, -1, TRUE)

NextProgress ==
    \/ \E dt \in 0..MaxClock : run_backup(Submissions1, dt)
    \/ \E readable \in BOOLEAN : Poll(1, readable)
    \/ RobocopyExit(1)
    \/ \E readable \in BOOLEAN : FinalUpdate(1, readable)
    \/ ShowDone(1)

SpecProgress == InitProgress /\ [][NextProgress]_vars

----------------------------------------------------------------------------
(* A log that only grows: a job whose Robocopy opens its log and appends   *)
(* lines of files, pending or complete, while the worker polls.            *)

GrowLines == { { "New File" }, { "New File", "100%" }, { "100%" } }

InitGrow ==
    /\ post_action_var = "none"
    /\ tray_notify_var = TRUE
    /\ progress_var = 0
    /\ progress_label = << "Running" >>
    /\ now = 0
    /\ logs = [t \in 0..MaxClock |-> NoFile]
    /\ jobs = << [NewJob(1, Cmd(Submissions1, LogPath(0)), LogPath(0))
                    EXCEPT !.pc = "poll", !.proc = "running"] >>
    /\ wins = << NoWin >>
    /\ power = << >>
    /\ app = "running"
    /\ last = Outcome(1, Submissions1, "launched", 0, 0, 5 * 2^28, -1, TRUE)

NextGrow ==
    \/ RobocopyOpenLog(1)
    \/ \E line \in GrowLines : RobocopyAppend(1, line)
    \/ \E readable \in BOOLEAN : Poll(1, readable)
    \/ RobocopyExit(1)
    \/ \E readable \in BOOLEAN : FinalUpdate(1, readable)

SpecGrow == InitGrow /\ [][NextGrow]_vars

----------------------------------------------------------------------------
(* What the claims speak of.                                               *)

Max(a, b) == IF a > b THEN a ELSE b

\* The system power commands issued by the countdown of job j.
PowerBy(j) == Cardinality({ n \in DOMAIN power : power[n].job = j })

\* A step that is a call of run_backup.
Submitted == last'.n = last.n + 1

\* The lines of a log that bear a progress keyword, and those of them that
\* bear the completion marker.
ProgressLines(lines) == { n \in DOMAIN lines : lines[n] \cap Keywords # { } }

CompleteLines(lines) == { n \in ProgressLines(lines) : "100%" \in lines[n] }

\* The exclusion tokens of the entry: the pieces between semicolons without
\* the blanks around them, lower-cased, the empty ones left out.
Blank(text, from, to) == \A p \in from..to : text[p] = " "

IsToken(text, i, j) ==
    /\ text[i] \notin { " ", ";" }
    /\ text[j] \notin { " ", ";" }
    /\ \A p \in i..j : text[p] # ";"
    /\ \E a \in 1..i, b \in j..Len(text) :
          /\ a = 1 \/ text[a - 1] = ";"
          /\ b = Len(text) \/ text[b + 1] = ";"
          /\ Blank(text, a, i - 1)
          /\ Blank(text, j + 1, b)

Tokens(text) ==
    { Lower(SubSeq(text, ij[1], ij[2])) :
          ij \in { x \in (1..Len(text)) \X (1..Len(text)) :
                       x[1] <= x[2] /\ IsToken(text, x[1], x[2]) } }

\* The files (directory number, file number) of a submission that can be
\* read and match no token, by directory path or by name.
Matches(in, d, f, tokens) ==
    \E t \in tokens :
        \/ Contains(t, Lower(RootDir(in.source, in.tree[d].rel)))
        \/ Contains(t, Lower(in.tree[d].files[f].fname))

AllFiles(in) ==
    UNION { { << d, f >> : f \in DOMAIN in.tree[d].files } : d \in DOMAIN in.tree }

Counted(in, tokens) ==
    { df \in AllFiles(in) :
          /\ in.tree[df[1]].files[df[2]].readable
          /\ ~Matches(in, df[1], df[2], tokens) }

RECURSIVE SumSizes(_, _)
SumSizes(in, files) ==
    IF files = { } THEN 0
    ELSE LET df == CHOOSE x \in files : TRUE
         IN  in.tree[df[1]].files[df[2]].size + SumSizes(in, files \ { df })

SpecTotal(in) == SumSizes(in, Counted(in, Tokens(in.exclusions)))

----------------------------------------------------------------------------
(* The claims.                                                             *)

\* C1: a countdown the user cancelled never runs the system power command,
\* whenever the cancel came; a countdown never cancelled runs it exactly
\* once, and only after its five ticks.
C1_CancelledNeverFires ==
    \A j \in DOMAIN wins :
        /\ wins[j].cancelled => PowerBy(j) = 0
        /\ PowerBy(j) <= 1
        /\ PowerBy(j) = 1 => wins[j].tpc = "end" /\ wins[j].i = 1
        /\ wins[j].tpc = "end" /\ ~wins[j].cancelled => PowerBy(j) = 1

\* C2: a notification that fails is absorbed: no error is raised for it and
\* the worker still reaches the match on the post-action.
C2_NotifyFailureAbsorbed ==
    \A j \in DOMAIN jobs :
        jobs[j].notify_failed =>
            /\ jobs[j].errors = 0
            /\ jobs[j].pc = "end" => jobs[j].post # << >>

\* C3: the forced read after the process has exited sets the progress to
\* 100 whatever the log is, and the progress is 100 when the Done dialog
\* opens.
C3_FinalPollReports100 ==
    [][\A j \in DOMAIN jobs \cap DOMAIN jobs' :
          /\ jobs[j].last_update # "forced" /\ jobs'[j].last_update = "forced"
                => progress_var' = 100
          /\ jobs'[j].done_shown > jobs[j].done_shown => progress_var' = 100]_vars

\* C4: a poll that is not forced and reads the log sets the progress to
\* floor(100 * m / max(k, 1)), k the lines with a keyword, m those of them
\* with "100%".
C4_PollReportsFloor ==
    \A j \in DOMAIN jobs :
        jobs[j].last_update = "periodic" /\ progress_label = PctLabel(progress_var) =>
            LET k == Cardinality(ProgressLines(LogFile(j).lines))
                m == Cardinality(CompleteLines(LogFile(j).lines))
            IN  progress_var = (100 * m) \div Max(k, 1)

\* C5: with both paths given and a preflight without error, run_backup
\* starts no worker exactly when the sizes of the counted files sum to more
\* than the free bytes, and then shows total - free (in GB, one decimal);
\* with total <= free it starts the worker.
C5_DeficitBlocks ==
    [][Submitted /\ last'.in.source # << >> /\ last'.in.target # << >>
          /\ last'.in.scan = ScanOk =>
          LET in == last'.in
              total == SpecTotal(in)
          IN  /\ total > in.free <=> jobs' = jobs
              /\ total > in.free =>
                    /\ last'.outcome = "deficit"
                    /\ last'.errors = 1
                    /\ last'.tenths = DeficitTenths(total - in.free)
                    /\ UNCHANGED << progress_var, progress_label, logs, wins >>
              /\ total <= in.free =>
                    /\ last'.outcome = "launched"
                    /\ Len(jobs') = Len(jobs) + 1
                    /\ jobs'[Len(jobs')].pc = "popen"]_vars

C5_Witness ==
    /\ last.outcome = "deficit"
    /\ last.in.scan = ScanOk
    /\ last.total = 5 * 2^28
    /\ last.in.free = 2^29
    /\ last.tenths = 8

\* C6: when disk_usage or the walk raises, run_backup warns and goes on:
\* the command is built, the progress is reset and exactly one worker is
\* started; no deficit is reported.
C6_SoftFailureProceeds ==
    [][Submitted /\ last'.in.source # << >> /\ last'.in.target # << >>
          /\ last'.in.scan # ScanOk =>
          /\ last'.outcome = "launched"
          /\ last'.warnings = 1
          /\ last'.errors = 0
          /\ last'.tenths = -1
          /\ last'.prepared
          /\ Len(jobs') = Len(jobs) + 1
          /\ SubSeq(jobs', 1, Len(jobs)) = jobs
          /\ jobs'[Len(jobs')].pc = "popen"
          /\ jobs'[Len(jobs')].log_path = LogPath(now')
          /\ jobs'[Len(jobs')].cmd = Cmd(last'.in, LogPath(now'))
          /\ progress_var' = 0
          /\ progress_label' = << "Running" >>]_vars

C6_Witness ==
    /\ last.outcome = "launched"
    /\ last.in.scan = DiskError
    /\ last.warnings = 1
    /\ Len(jobs) = 2
    /\ jobs[2].sub = last.n

\* C7: with the source or the target empty, run_backup warns and does
\* nothing else: no preflight, no log path, the progress bar and its label
\* as they were, no worker.
C7_MissingPathRejects ==
    [][Submitted /\ (last'.in.source = << >> \/ last'.in.target = << >>) =>
          /\ last'.outcome = "rejected"
          /\ last'.warnings = 1
          /\ last'.errors = 0
          /\ last'.total = -1
          /\ last'.tenths = -1
          /\ ~last'.prepared
          /\ UNCHANGED << progress_var, progress_label, jobs, logs, wins, power >>]_vars

C7_Witness ==
    /\ last.outcome = "rejected"
    /\ last.in.source # << >>
    /\ last.in.target = << >>
    /\ last.n = 2
    /\ Len(jobs) = 1
    /\ progress_label = << "Running" >>

\* C8: a worker whose Popen raised shows one error and nothing else: it
\* never updates the progress, opens no Done dialog, raises no
\* notification and runs no post-action.
C8_SpawnFailureIsFatal ==
    \A j \in DOMAIN jobs :
        jobs[j].proc = "none" =>
            /\ jobs[j].pc \in { "popen", "end" }
            /\ jobs[j].pc = "end" => jobs[j].errors = 1
            /\ jobs[j].last_update = "none"
            /\ jobs[j].done_shown = 0
            /\ jobs[j].notified = 0
            /\ ~jobs[j].notify_failed
            /\ jobs[j].post = << >>
            /\ wins[j] = NoWin
            /\ PowerBy(j) = 0

C8_Witness ==
    \E j \in DOMAIN jobs :
        /\ jobs[j].proc = "none"
        /\ jobs[j].pc = "end"
        /\ jobs[j].errors = 1
        /\ \E i \in DOMAIN jobs : jobs[i].done_shown = 1

\* C9: a job's Done dialog opens once, after its last periodic update (the
\* forced one is the last update before it, and none follows); the
\* notification and the post-action come after the dialog, once at most.
C9_DoneOnceThenPostAction ==
    \A j \in DOMAIN jobs :
        /\ jobs[j].done_shown <= 1
        /\ jobs[j].notified <= 1
        /\ Len(jobs[j].post) <= 1
        /\ jobs[j].done_shown = 1 <=> jobs[j].last_update = "forced" /\ jobs[j].pc # "showinfo"
        /\ jobs[j].pc \in { "dialog", "notify", "post" } => jobs[j].done_shown = 1
        /\ jobs[j].pc = "end" /\ jobs[j].proc # "none" => jobs[j].done_shown = 1
        /\ jobs[j].notified = 1 \/ jobs[j].notify_failed \/ jobs[j].post # << >>
              \/ wins[j] # NoWin =>
              jobs[j].done_shown = 1 /\ jobs[j].dismissed

C9_Witness ==
    \E j \in DOMAIN jobs :
        /\ jobs[j].pc = "end"
        /\ jobs[j].done_shown = 1
        /\ jobs[j].notified = 1
        /\ jobs[j].post = << "reboot" >>
        /\ wins[j].tpc = "end"

\* C10: the preflight total is the sum of the sizes of the readable files
\* that match no exclusion token, neither by the lower-cased path of their
\* directory nor by their lower-cased name; an entry of blanks and
\* semicolons only excludes nothing.
C10_TotalSkipsExcluded ==
    last.outcome \in { "deficit", "launched" } /\ last.in.scan = ScanOk =>
        /\ last.total = SpecTotal(last.in)
        /\ (\A p \in DOMAIN last.in.exclusions : last.in.exclusions[p] \in { " ", ";" })
              => last.total = SumSizes(last.in, Counted(last.in, { }))

C10_Witness ==
    /\ last.outcome = "launched"
    /\ last.in.source = SrcPath
    /\ last.in.tree = TreeDeep
    /\ last.in.exclusions = << " ", "A", ";" >>
    /\ last.total = 65

\* C11: the seconds shown by a countdown stay within 0..5, and the power
\* command is run only from a countdown that has come down to 0: the thread
\* that is about to run it, or has run it, has shown 0 seconds.
C11_FiresFromZero ==
    \A j \in DOMAIN wins :
        /\ wins[j].secs \in 0..5
        /\ wins[j].tpc = "fire" \/ PowerBy(j) > 0 => wins[j].secs = 0

\* What the combobox and the checkbox hold when the first worker is started:
\* their initial values, the user's picks being taken right before a
\* worker's read and no worker existing before the first launch.
FirstConfig == [post_action |-> "none", notify |-> TRUE]

\* C12: the post-action and the notify flag applied to a job are those held
\* when run_backup was called for it; stated for the first job, whose
\* submission finds the initial values.
C12_ConfigFixedAtSubmission ==
    Len(jobs) >= 1 =>
        /\ jobs[1].post # << >> => jobs[1].post = << FirstConfig.post_action >>
        /\ jobs[1].dismissed /\ jobs[1].pc \in { "post", "end" } =>
              (FirstConfig.notify <=> jobs[1].notified = 1 \/ jobs[1].notify_failed)

\* The first worker is started with the initial values in the widgets.
FirstLaunchFindsInitialValues ==
    [][Len(jobs) = 0 /\ Len(jobs') = 1 =>
          /\ post_action_var = FirstConfig.post_action
          /\ tray_notify_var = FirstConfig.notify]_vars

\* C13: the progress is an integer of 0..100 in every state; in every log
\* the lines counted as done are no more than the lines counted as total,
\* and the divisor is at least 1.
C13_PercentInRange ==
    /\ progress_var \in 0..100
    /\ \A j \in DOMAIN jobs :
          LET relevant == Relevant(LogFile(j).lines)
          IN  /\ Total(relevant) >= 1
              /\ Done(relevant) \in 0..Total(relevant)

C13_Witness ==
    /\ jobs[1].last_update = "periodic"
    /\ Len(Relevant(LogFile(1).lines)) = MaxProbeLines
    /\ Done(Relevant(LogFile(1).lines)) = MaxProbeLines - 1
    /\ progress_var = 98
    /\ Len(jobs) = 1

\* C14: a poll of a log that is missing or empty leaves the progress and its
\* label as they were (the steps that are no call of run_backup).
C14_QuietOnMissingOrEmpty ==
    [][last' = last
          /\ (\A j \in DOMAIN jobs : ~LogFile(j).exists \/ LogFile(j).lines = << >>)
          => UNCHANGED << progress_var, progress_label >>]_vars

\* C15: while Robocopy only appends lines to the log of a job, the progress
\* reported by the polls of that job never goes down.
C15_GrowingLogNeverGoesBack ==
    [][jobs[1].pc = "poll" /\ logs' = logs => progress_var' >= progress_var]_vars

\* A step of the follow-up of job j: its match on the post-action, or a
\* step of its countdown window.
FollowUpStep(j) == jobs'[j].post # jobs[j].post \/ wins'[j] # wins[j]

\* C16: the progress and its label are written by _update_progress only: a
\* call of run_backup leaves them as they were, and so does every step of
\* the post-action and of the countdown.
C16_OnlyMonitorWrites ==
    [][app' # "closed"
          /\ (Submitted \/ \E j \in DOMAIN jobs \cap DOMAIN jobs' : FollowUpStep(j))
          => UNCHANGED << progress_var, progress_label >>]_vars

\* A step taken by the Tk main loop: the Start Copy button, the Exit button
\* or the queued root.destroy, a pick in the combobox, the checkbox, the
\* Cancel button of a countdown window.
EventLoopStep ==
    \/ Submitted
    \/ app' = "closed"
    \/ post_action_var' # post_action_var
    \/ tray_notify_var' # tray_notify_var
    \/ \E j \in DOMAIN wins \cap DOMAIN wins' : wins'[j].cancelled /\ ~wins[j].cancelled

\* Two worker threads in their polling loops, each before a write of the
\* progress.
TwoWriters ==
    \E i, j \in DOMAIN jobs : i # j /\ jobs[i].pc = "poll" /\ jobs[j].pc = "poll"

\* C17: the progress, its label and the seconds of a countdown change only
\* in steps of the main loop, and no two threads stand before a write of
\* the progress at the same time.
C17_OnlyEventLoopWrites ==
    [][/\ ~TwoWriters
       /\ (\/ << progress_var, progress_label >>' # << progress_var, progress_label >>
           \/ \E j \in DOMAIN wins \cap DOMAIN wins' : wins'[j].secs # wins[j].secs)
          => EventLoopStep]_vars

\* C18: no two workers are given the same log path.
C18_FreshLogPath ==
    \A i, j \in DOMAIN jobs : i # j => jobs[i].log_path # jobs[j].log_path

\* The segments of the exclusions entry, as pairs of first and last
\* position (an empty one has last = first - 1): the stretches between
\* semicolons; those with a character that is no blank; what is left of one
\* without the blanks around it; its place among them.
Segments(text) ==
    { ab \in (1..Len(text) + 1) \X (0..Len(text)) :
          /\ ab[1] <= ab[2] + 1
          /\ ab[1] = 1 \/ text[ab[1] - 1] = ";"
          /\ ab[2] = Len(text) \/ text[ab[2] + 1] = ";"
          /\ \A p \in ab[1]..ab[2] : text[p] # ";" }

TokenSegments(text) ==
    { ab \in Segments(text) : \E p \in ab[1]..ab[2] : text[p] # " " }

Trimmed(text, ab) ==
    LET marks == { p \in ab[1]..ab[2] : text[p] # " " }
        first == CHOOSE p \in marks : \A q \in marks : p <= q
        final == CHOOSE p \in marks : \A q \in marks : p >= q
    IN  SubSeq(text, first, final)

Place(text, ab) == Cardinality({ s \in TokenSegments(text) : s[1] <= ab[1] })

Count(cmd, arg) == Cardinality({ p \in DOMAIN cmd : cmd[p] = arg })

\* C19: the command of a launched job is robocopy, the source, the target,
\* /MIR, /R:0, /W:0, then /XD token /XF token for each token of the
\* exclusions entry (trimmed, the empty ones left out), /L exactly when the
\* dry run is ticked, and one /LOG: with the log path of the job, at the end.
C19_CommandLine ==
    last.outcome = "launched" =>
        \A j \in DOMAIN jobs :
            LET cmd == jobs[j].cmd
                in == last.in
                tokens == TokenSegments(in.exclusions)
                flag == IF in.dry_run THEN 1 ELSE 0
            IN  /\ Len(cmd) = 6 + 4 * Cardinality(tokens) + flag + 1
                /\ SubSeq(cmd, 1, 6) = << << "robocopy" >>, in.source, in.target,
                                          << "/MIR" >>, << "/R:0" >>, << "/W:0" >> >>
                /\ Count(cmd, << "/XD" >>) = Cardinality(tokens)
                /\ Count(cmd, << "/XF" >>) = Cardinality(tokens)
                /\ \A ab \in tokens :
                      LET at == 6 + 4 * (Place(in.exclusions, ab) - 1)
                      IN  SubSeq(cmd, at + 1, at + 4) =
                              << << "/XD" >>, Trimmed(in.exclusions, ab),
                                 << "/XF" >>, Trimmed(in.exclusions, ab) >>
                /\ Count(cmd, << "/L" >>) = flag
                /\ Cardinality({ p \in DOMAIN cmd : cmd[p][1] = "/LOG:" }) = 1
                /\ cmd[Len(cmd)] = << "/LOG:" >> \o jobs[j].log_path

C19_Witness ==
    /\ last.outcome = "launched"
    /\ last.in.exclusions = << "a", ";", "b" >>
    /\ last.in.dry_run
    /\ Len(jobs) = 1
    /\ Len(jobs[1].cmd) = 16
    /\ jobs[1].cmd[12] = << "b" >>

\* C20: the Done dialog of a job opens once its Robocopy has exited, and as
\* long as it has not been dismissed the job raises no notification, asks
\* for no close, creates no countdown and runs no power command.
C20_NothingBeforeDismissal ==
    /\ \A j \in DOMAIN jobs :
          /\ jobs[j].pc = "dialog" => jobs[j].proc = "exited" /\ ~jobs[j].dismissed
          /\ ~jobs[j].dismissed =>
                /\ jobs[j].pc \notin { "notify", "post" }
                /\ jobs[j].notified = 0
                /\ ~jobs[j].notify_failed
                /\ jobs[j].post = << >>
                /\ wins[j] = NoWin
                /\ PowerBy(j) = 0
    /\ app = "closing" =>
          \E j \in DOMAIN jobs : jobs[j].dismissed /\ jobs[j].post = << "close" >>

C20_Witness ==
    \E i, j \in DOMAIN jobs :
        /\ jobs[j].pc = "dialog"
        /\ ~jobs[j].dismissed
        /\ jobs[i].dismissed
        /\ jobs[i].notified = 1
        /\ PowerBy(i) = 1

====
